---------------------------- MODULE Spec2Model ----------------------------
(***************************************************************************)
(* Invoice extraction: the Flask application (src/app.py) and the batch    *)
(* script (src/keep.py).                                                   *)
(*                                                                         *)
(* Python values are tagged records: None, integers, strings, lists and    *)
(* dicts (a dict is a function whose DOMAIN is the set of its keys).       *)
(***************************************************************************)
EXTENDS Integers, Sequences, FiniteSets, TLC

(***************************************************************************)
(* Bounds of the model.                                                    *)
(***************************************************************************)
\* most files the Process requests that interleave name, all together
MaxConcFiles == 3
\* longest file_paths / image_paths list of one batch run on its own
MaxFiles == 3
\* most line items of a record handed to flatten_to_rows on its own
MaxItems == 2

(***************************************************************************)
(* Python / JSON values.                                                   *)
(***************************************************************************)
None == [t |-> "none", n |-> 0, s |-> ""]
JInt(n) == [t |-> "int", n |-> n, s |-> ""]
JStr(s) == [t |-> "str", n |-> 0, s |-> s]
JList(items) == [t |-> "list", items |-> items]
JDict(f) == [t |-> "dict", f |-> f]
EmptyDict == [k \in {} |-> None]

\* Python truthiness, as `if invoice_data:` and `if not invoice_data:` test it
Truthy(v) ==
    CASE v.t = "none" -> FALSE
      [] v.t = "int"  -> v.n # 0
      [] v.t = "str"  -> v.s # ""
      [] v.t = "list" -> Len(v.items) > 0
      [] v.t = "dict" -> DOMAIN v.f # {}

\* d.get(key, default) on a dict's key/value function
get(d, key, default) == IF key \in DOMAIN d THEN d[key] ELSE default

\* what `for item in v` iterates over; raises TypeError when v is None or a
\* number.  A non-empty string yields strings (its characters) and a dict
\* yields its keys: one string stands for them, none of them is a dict.
Iterable(v) == v.t \in {"list", "str", "dict"}
IterItems(v) ==
    CASE v.t = "list" -> v.items
      [] v.t = "str"  -> IF v.s = "" THEN <<>> ELSE <<JStr(v.s)>>
      [] v.t = "dict" -> IF DOMAIN v.f = {} THEN <<>> ELSE <<JStr("key")>>
      [] OTHER        -> <<>>

(***************************************************************************)
(* flatten_to_rows (src/app.py).  The result is [raised, rows]: raised     *)
(* when a .get is applied to something that is not a dict, or line_items   *)
(* cannot be iterated; the rows built so far are local and are lost.       *)
(***************************************************************************)
\* variant of flatten_row: a missing quantity defaults to '' instead of 0
flatten_row_noqty(invoice, item) ==
    [Invoice_Number   |-> get(invoice, "invoice_number", JStr("")),
     Waybill_Number   |-> get(invoice, "waybill_number", JStr("")),
     Customer_Name    |-> get(invoice, "customer_name", JStr("")),
     Order_Number     |-> get(invoice, "order_number", JStr("")),
     Invoice_Date     |-> get(invoice, "invoice_date", JStr("")),
     Line_No          |-> get(item, "line_no", JStr("")),
     Item_Code        |-> get(item, "item_code", JStr("")),
     Item_Description |-> get(item, "item_description", JStr("")),
     Quantity         |-> get(item, "quantity", JStr("")),
     UOM              |-> get(item, "uom", JStr("")),
     Unit_Price       |-> get(item, "unit_price", JInt(0)),
     Total_Amount     |-> get(item, "total_amount", JInt(0)),
     Discount_Amount  |-> get(item, "discount_amount", JInt(0)),
     VAT              |-> get(item, "vat", JInt(0)),
     Amount_Incl_VAT  |-> get(item, "amount_incl_vat", JInt(0)),
     Batch_No         |-> get(item, "batch_no", JStr("")),
     Expiry_Date      |-> get(item, "expiry_date", JStr(""))]

\* the row built for one line item (lines 100-118)
flatten_row(invoice, item) ==
    [Invoice_Number   |-> get(invoice, "invoice_number", JStr("")),
     Waybill_Number   |-> get(invoice, "waybill_number", JStr("")),
     Customer_Name    |-> get(invoice, "customer_name", JStr("")),
     Order_Number     |-> get(invoice, "order_number", JStr("")),
     Invoice_Date     |-> get(invoice, "invoice_date", JStr("")),
     Line_No          |-> get(item, "line_no", JStr("")),
     Item_Code        |-> get(item, "item_code", JStr("")),
     Item_Description |-> get(item, "item_description", JStr("")),
     Quantity         |-> get(item, "quantity", JInt(0)),
     UOM              |-> get(item, "uom", JStr("")),
     Unit_Price       |-> get(item, "unit_price", JInt(0)),
     Total_Amount     |-> get(item, "total_amount", JInt(0)),
     Discount_Amount  |-> get(item, "discount_amount", JInt(0)),
     VAT              |-> get(item, "vat", JInt(0)),
     Amount_Incl_VAT  |-> get(item, "amount_incl_vat", JInt(0)),
     Batch_No         |-> get(item, "batch_no", JStr("")),
     Expiry_Date      |-> get(item, "expiry_date", JStr(""))]

RECURSIVE flatten_loop(_, _, _, _)
flatten_loop(invoice, items, i, rows) ==
    IF i > Len(items) THEN [raised |-> FALSE, rows |-> rows]
    ELSE IF items[i].t # "dict" THEN [raised |-> TRUE, rows |-> <<>>]
    ELSE flatten_loop(invoice, items, i + 1,
                      Append(rows, flatten_row(invoice, items[i].f)))

flatten_to_rows(invoice_data) ==
    IF ~Truthy(invoice_data) THEN [raised |-> FALSE, rows |-> <<>>]
    ELSE IF invoice_data.t # "dict" THEN [raised |-> TRUE, rows |-> <<>>]
    ELSE LET line_items == get(invoice_data.f, "line_items", JList(<<>>))
         IN  IF ~Iterable(line_items) THEN [raised |-> TRUE, rows |-> <<>>]
             ELSE flatten_loop(invoice_data.f, IterItems(line_items), 1, <<>>)

(***************************************************************************)
(* flatten_to_rows on its own: the records it is applied to.               *)
(***************************************************************************)
HeaderKeys == {"invoice_number", "waybill_number", "customer_name",
               "order_number", "invoice_date"}
ItemKeys == {"line_no", "item_code", "item_description", "quantity", "uom",
             "unit_price", "total_amount", "discount_amount", "vat",
             "amount_incl_vat", "batch_no", "expiry_date"}

\* line items: every subset of three of the keys, the values of an item
\* differing from those of every other item
SampleItemKeys == {"line_no", "quantity", "batch_no"}
SampleItem(ks, v) ==
    JDict([k \in ks |-> IF k = "batch_no" THEN JStr("B") ELSE JInt(v)])
SampleItems == {SampleItem(ks, v) : ks \in SUBSET SampleItemKeys, v \in {1, 2}}

RECURSIVE SeqsUpTo(_, _)
SeqsUpTo(S, n) ==
    IF n = 0 THEN {<<>>}
    ELSE LET shorter == SeqsUpTo(S, n - 1)
         IN  shorter \cup {Append(q, x) : q \in shorter, x \in S}

SampleHeaderKeys == {"invoice_number", "invoice_date"}
SampleHeaders == {[k \in ks |-> JStr("H")] : ks \in SUBSET SampleHeaderKeys}
WithLineItems(h, li) ==
    [k \in DOMAIN h \cup {"line_items"} |-> IF k = "line_items" THEN li ELSE h[k]]
SampleRecords ==
    {JDict(h) : h \in SampleHeaders}
    \cup {JDict(WithLineItems(h, JList(q))) :
            h \in SampleHeaders, q \in SeqsUpTo(SampleItems, MaxItems)}
FlattenInputs ==
    SampleRecords
    \cup {None, JList(<<>>), JList(<<JInt(1)>>), JStr("text"), JInt(0),
          JDict([line_items |-> None]),
          JDict([line_items |-> JList(<<JInt(1)>>)]),
          JDict([line_items |-> JStr("")]),
          JDict([line_items |-> JDict(EmptyDict)])}



(***************************************************************************)
(* The documents.  A file path stands for the document stored under it;    *)
(* Service is the reply of the remote model to that document: the call     *)
(* raises (err), or returns text that json.loads rejects (~decodable), or  *)
(* text that decodes to value.                                             *)
(***************************************************************************)
Reply(value) == [err |-> FALSE, decodable |-> TRUE, value |-> value]

DocTwo ==
    JDict([invoice_number |-> JStr("INV1"),
           customer_name  |-> JStr("ACME"),
           line_items     |-> JList(<<
               JDict([line_no |-> JInt(1), quantity |-> JInt(2),
                      amount_incl_vat |-> JInt(50)]),
               JDict([line_no |-> JInt(2), quantity |-> JInt(3),
                      amount_incl_vat |-> JInt(75)])>>)])
DocOne ==
    JDict([invoice_number |-> JStr("INV2"),
           line_items     |-> JList(<<
               JDict([line_no |-> JInt(1), item_code |-> JStr("A")])>>)])
DocHeaderOnly == JDict([invoice_number |-> JStr("INV1")])
DocNoLines == JDict([invoice_number |-> JStr("INV3"), line_items |-> JList(<<>>)])
DocEmpty == JDict(EmptyDict)
DocArray == JList(<<JInt(1)>>)
DocNullItems == JDict([invoice_number |-> JStr("INV4"), line_items |-> None])
DocScalarItems == JDict([invoice_number |-> JStr("INV5"),
                         line_items |-> JList(<<JInt(1)>>)])
DocBadQty ==
    JDict([invoice_number |-> JStr("INV6"),
           line_items     |-> JList(<<
               JDict([line_no |-> JInt(1), quantity |-> JStr("x"),
                      amount_incl_vat |-> JInt(10)])>>)])
DocNullQty ==
    JDict([invoice_number |-> JStr("INV7"),
           line_items     |-> JList(<<
               JDict([line_no |-> JInt(1), quantity |-> None,
                      amount_incl_vat |-> JInt(20)])>>)])

Service(path) ==
    CASE path = "svcerr.png"      -> [err |-> TRUE, decodable |-> FALSE, value |-> None]
      [] path = "garbage.png"     -> [err |-> FALSE, decodable |-> FALSE, value |-> None]
      [] path = "two.png"         -> Reply(DocTwo)
      [] path = "one.png"         -> Reply(DocOne)
      [] path = "hdronly.png"     -> Reply(DocHeaderOnly)
      [] path = "nolines.png"     -> Reply(DocNoLines)
      [] path = "empty.png"       -> Reply(DocEmpty)
      [] path = "array.png"       -> Reply(DocArray)
      [] path = "nullitems.png"   -> Reply(DocNullItems)
      [] path = "scalaritems.png" -> Reply(DocScalarItems)
      [] path = "badqty.png"      -> Reply(DocBadQty)
      [] path = "nullqty.png"     -> Reply(DocNullQty)
      [] OTHER                    -> [err |-> TRUE, decodable |-> FALSE, value |-> None]

\* the files on disk when a batch runs on its own, and a path that names none
DiskFiles == {"svcerr.png", "garbage.png", "two.png", "one.png", "hdronly.png",
              "nolines.png", "empty.png", "array.png", "nullitems.png",
              "scalaritems.png", "badqty.png", "nullqty.png"}
Paths == DiskFiles \cup {"missing.png"}
\* when requests interleave: the paths requested, of which the upload folder
\* holds ConcUploads and the others lie elsewhere on the server's disk
ConcPaths == {"two.png", "badqty.png"}
ConcUploads == {"two.png"}
\* the upload folder when Clear runs beside one Process request
ClearUploads == {"two.png", "one.png", "badqty.png"}

\* extract_invoice_data (src/app.py): every exception (the upload of a file
\* that is not there, the service call, json.loads) is caught and None returned
extract_invoice_data(image_path, disk) ==
    IF image_path \notin disk THEN None
    ELSE LET r == Service(image_path)
         IN  IF r.err \/ ~r.decodable THEN None ELSE r.value

(***************************************************************************)
(* The statistics of process_files (src/app.py lines 183-189), over a      *)
(* non-empty row list: pandas' Series.nunique() and Series.sum(), then     *)
(* int() / float().  sum() skips None/NaN.  Over a column holding a string *)
(* that is not a number (the only strings of the documents below) sum()    *)
(* raises TypeError (a mixed column) or concatenates, and int() or float() *)
(* of the text raises ValueError: either way the handler raises.  nunique  *)
(* drops None and raises on an unhashable value.  Amounts are integers.    *)
(***************************************************************************)
Unhashable(v) == v.t \in {"list", "dict"}
NuniqueRaises(rows, col) == \E i \in 1..Len(rows) : Unhashable(rows[i][col])
Nunique(rows, col) ==
    Cardinality({rows[i][col] : i \in 1..Len(rows)} \ {None})

SumRaises(rows, col) == \E i \in 1..Len(rows) : rows[i][col].t \notin {"int", "none"}
RECURSIVE SumFrom(_, _, _)
SumFrom(rows, col, i) ==
    IF i > Len(rows) THEN 0
    ELSE (IF rows[i][col].t = "int" THEN rows[i][col].n ELSE 0)
         + SumFrom(rows, col, i + 1)
Sum(rows, col) == SumFrom(rows, col, 1)

NoResponse ==
    [status |-> "none", processed |-> 0, total_rows |-> 0, total_documents |-> 0,
     total_line_items |-> 0, total_quantity |-> 0, total_value |-> 0]
ErrorResponse(status) == [NoResponse EXCEPT !.status = status]

StatsRaise(all_rows) ==
    /\ Len(all_rows) > 0
    /\ \/ NuniqueRaises(all_rows, "Invoice_Number")
       \/ SumRaises(all_rows, "Quantity")
       \/ SumRaises(all_rows, "Amount_Incl_VAT")

SuccessResponse(all_rows, processed) ==
    LET empty == Len(all_rows) = 0
    IN  [status           |-> "success",
         processed        |-> processed,
         total_rows       |-> Len(all_rows),
         total_documents  |-> IF empty THEN 0 ELSE Nunique(all_rows, "Invoice_Number"),
         total_line_items |-> Len(all_rows),
         total_quantity   |-> IF empty THEN 0 ELSE Sum(all_rows, "Quantity"),
         total_value      |-> IF empty THEN 0 ELSE Sum(all_rows, "Amount_Incl_VAT")]


(***************************************************************************)
(* State.                                                                  *)
(***************************************************************************)
Procs == {"p1", "p2"}

VARIABLES
    extracted_data,  \* app.py: the process-wide dataset (a list of rows)
    uploads,         \* the files in the upload folder
    elsewhere,       \* the files on disk outside the upload folder
    results,         \* the spreadsheets export_excel has written, as row lists
    \* process_files, one request per p in Procs
    pc, file_paths, idx, all_rows, processed, resp,
    \* get_data
    d_pc,
    \* export_excel
    e_pc, e_resp,
    \* clear_data
    c_pc, c_listing, c_todo, c_removed, c_failed,
    \* history: who assigned extracted_data last, and whose loop ended last
    last_writer, last_loop,
    \* keep.py: process_multiple_invoices
    k_pc, k_paths, k_idx, k_all_rows, k_result,
    \* flatten_to_rows of app.py (f_out) and of keep.py (f_keep_out) applied
    \* on their own to the record f_in
    f_pc, f_in, f_out, f_keep_out

appvars == <<extracted_data, uploads, elsewhere, results, pc, file_paths, idx, all_rows,
             processed, resp, d_pc, e_pc, e_resp,
             c_pc, c_listing, c_todo, c_removed, c_failed, last_writer, last_loop>>
keepvars == <<k_pc, k_paths, k_idx, k_all_rows, k_result>>
fvars == <<f_pc, f_in, f_out, f_keep_out>>
vars == <<appvars, keepvars, fvars>>

procvars == <<pc, file_paths, idx, all_rows, processed, resp>>
datavars == <<d_pc>>
exportvars == <<e_pc, e_resp>>
clearvars == <<c_pc, c_listing, c_todo, c_removed, c_failed>>

\* the state after the module is loaded; the upload folder keeps what earlier
\* runs left in it (os.makedirs(..., exist_ok=True))
InitWith(folder, other, records) ==
    /\ extracted_data = <<>>
    /\ uploads = folder
    /\ elsewhere = other
    /\ results = <<>>
    /\ pc = [p \in Procs |-> "idle"]
    /\ file_paths = [p \in Procs |-> <<>>]
    /\ idx = [p \in Procs |-> 1]
    /\ all_rows = [p \in Procs |-> <<>>]
    /\ processed = [p \in Procs |-> 0]
    /\ resp = [p \in Procs |-> NoResponse]
    /\ d_pc = "idle"
    /\ e_pc = "idle" /\ e_resp = "none"
    /\ c_pc = "idle" /\ c_listing = {} /\ c_todo = {} /\ c_removed = {} /\ c_failed = {}
    /\ last_writer = "none" /\ last_loop = "none"
    /\ k_pc = "idle" /\ k_paths = <<>> /\ k_idx = 1 /\ k_all_rows = <<>>
    /\ k_result = "none"
    /\ f_pc = "call"
    /\ f_in \in records
    /\ f_out = [raised |-> FALSE, rows |-> <<>>]
    /\ f_keep_out = [raised |-> FALSE, rows |-> <<>>]

(***************************************************************************)
(* process_files (src/app.py).  body is the request's JSON object: has     *)
(* says whether it carries the key file_paths.                             *)
(***************************************************************************)
Bodies(paths, n) ==
    {[has |-> FALSE, fp |-> <<>>]}
    \cup {[has |-> TRUE, fp |-> q] : q \in SeqsUpTo(paths, n)}

process_files_begin(p, body) ==
    /\ pc[p] = "idle"
    /\ LET fp == IF body.has THEN body.fp ELSE <<>>
       IN  IF Len(fp) = 0
           THEN /\ resp' = [resp EXCEPT ![p] = ErrorResponse("error400")]
                /\ pc' = [pc EXCEPT ![p] = "done"]
                /\ UNCHANGED file_paths
           ELSE /\ file_paths' = [file_paths EXCEPT ![p] = fp]
                /\ pc' = [pc EXCEPT ![p] = "loop"]
                /\ UNCHANGED resp
    /\ idx' = [idx EXCEPT ![p] = 1]
    /\ all_rows' = [all_rows EXCEPT ![p] = <<>>]
    /\ processed' = [processed EXCEPT ![p] = 0]
    /\ UNCHANGED <<extracted_data, uploads, elsewhere, results, datavars, exportvars,
                   clearvars, last_writer, last_loop, keepvars, fvars>>

\* one pass of the loop body (lines 169-177): an exception of flatten_to_rows
\* is caught, and nothing is appended or counted for that file
process_files_iter(p) ==
    /\ pc[p] = "loop"
    /\ LET filepath == file_paths[p][idx[p]]
           invoice_data == extract_invoice_data(filepath, uploads \cup elsewhere)
           r == flatten_to_rows(invoice_data)
           counted == Truthy(invoice_data) /\ ~r.raised
           last == idx[p] = Len(file_paths[p])
       IN  /\ all_rows' = [all_rows EXCEPT
                              ![p] = IF counted THEN @ \o r.rows ELSE @]
           /\ processed' = [processed EXCEPT
                              ![p] = IF counted THEN @ + 1 ELSE @]
           /\ idx' = [idx EXCEPT ![p] = @ + 1]
           /\ pc' = [pc EXCEPT ![p] = IF last THEN "store" ELSE "loop"]
           /\ last_loop' = IF last THEN p ELSE last_loop
    /\ UNCHANGED <<extracted_data, uploads, elsewhere, results, file_paths, resp, datavars,
                   exportvars, clearvars, last_writer, keepvars, fvars>>

\* variants of Stored: the rows are added to the old dataset; a dataset
\* that is not empty is kept
StoredMerged(old, rows) == old \o rows
StoredFirstWins(old, rows) == IF Len(old) > 0 THEN old ELSE rows
\* extracted_data = all_rows (line 180): the new value of the global, given
\* the old one and the request's rows
Stored(old, rows) == rows

process_files_store(p) ==
    /\ pc[p] = "store"
    /\ extracted_data' = Stored(extracted_data, all_rows[p])
    /\ last_writer' = p
    /\ pc' = [pc EXCEPT ![p] = "stats"]
    /\ UNCHANGED <<uploads, elsewhere, results, file_paths, idx, all_rows, processed, resp,
                   datavars, exportvars, clearvars, last_loop, keepvars, fvars>>

\* the statistics and the response (lines 183-196)
process_files_stats(p) ==
    /\ pc[p] = "stats"
    /\ resp' = [resp EXCEPT
                  ![p] = IF StatsRaise(all_rows[p]) THEN ErrorResponse("error500")
                         ELSE SuccessResponse(all_rows[p], processed[p])]
    /\ pc' = [pc EXCEPT ![p] = "done"]
    /\ UNCHANGED <<extracted_data, uploads, elsewhere, results, file_paths, idx, all_rows,
                   processed, datavars, exportvars, clearvars, last_writer, last_loop,
                   keepvars, fvars>>

(***************************************************************************)
(* get_data (src/app.py): the global is read twice, for 'data' and then    *)
(* for 'count'.  It last_writer nothing; what it read leaves with the response  *)
(* and is not kept.                                                        *)
(***************************************************************************)
get_data_read ==
    /\ d_pc = "idle"
    /\ d_pc' = "count"
    /\ UNCHANGED <<extracted_data, uploads, elsewhere, results, procvars, exportvars,
                   clearvars, last_writer, last_loop, keepvars, fvars>>

get_data_count ==
    /\ d_pc = "count"
    /\ d_pc' = "done"
    /\ UNCHANGED <<extracted_data, uploads, elsewhere, results, procvars, exportvars,
                   clearvars, last_writer, last_loop, keepvars, fvars>>

(***************************************************************************)
(* export_excel (src/app.py): the emptiness test (line 207), then the read *)
(* of the global into a DataFrame and the file written from it (210-220).  *)
(* DataFrame([]) is an empty frame, which to_excel last_writer as an empty      *)
(* sheet.                                                                  *)
(***************************************************************************)
export_excel_check ==
    /\ e_pc = "idle"
    /\ IF Len(extracted_data) = 0
       THEN e_pc' = "done" /\ e_resp' = "error400"
       ELSE e_pc' = "write" /\ UNCHANGED e_resp
    /\ UNCHANGED <<extracted_data, uploads, elsewhere, results, procvars, datavars, clearvars,
                   last_writer, last_loop, keepvars, fvars>>

export_excel_write ==
    /\ e_pc = "write"
    /\ results' = Append(results, extracted_data)
    /\ e_resp' = "file"
    /\ e_pc' = "done"
    /\ UNCHANGED <<extracted_data, uploads, elsewhere, procvars, datavars,
                   clearvars, last_writer, last_loop, keepvars, fvars>>

(***************************************************************************)
(* clear_data (src/app.py): the global is emptied (line 225), the folder   *)
(* listed (228), and each listed file removed, an error of os.remove being *)
(* passed over (229-232).  os.listdir gives the names in no fixed order.   *)
(***************************************************************************)
clear_data_assign ==
    /\ c_pc = "idle"
    /\ extracted_data' = <<>>
    /\ last_writer' = "clear"
    /\ c_pc' = "listdir"
    /\ UNCHANGED <<uploads, elsewhere, results, procvars, datavars, exportvars, c_listing,
                   c_todo, c_removed, c_failed, last_loop, keepvars, fvars>>

clear_data_listdir ==
    /\ c_pc = "listdir"
    /\ c_listing' = uploads
    /\ c_todo' = uploads
    /\ c_pc' = "remove"
    /\ UNCHANGED <<extracted_data, uploads, elsewhere, results, procvars, datavars, exportvars,
                   c_removed, c_failed, last_writer, last_loop, keepvars, fvars>>

\* os.remove succeeds
clear_data_remove(file) ==
    /\ c_pc = "remove"
    /\ file \in c_todo
    /\ uploads' = uploads \ {file}
    /\ c_removed' = c_removed \cup {file}
    /\ c_todo' = c_todo \ {file}
    /\ UNCHANGED <<extracted_data, elsewhere, results, procvars, datavars, exportvars, c_pc,
                   c_listing, c_failed, last_writer, last_loop, keepvars, fvars>>

\* variant of clear_data_remove_error: the error ends the loop
clear_data_remove_error_aborts(file) ==
    /\ c_pc = "remove"
    /\ file \in c_todo
    /\ c_failed' = c_failed \cup {file}
    /\ c_todo' = {}
    /\ UNCHANGED <<extracted_data, uploads, elsewhere, results, procvars, datavars, exportvars,
                   c_pc, c_listing, c_removed, last_writer, last_loop, keepvars, fvars>>

\* os.remove raises: the except clause passes, the loop goes on
clear_data_remove_error(file) ==
    /\ c_pc = "remove"
    /\ file \in c_todo
    /\ c_failed' = c_failed \cup {file}
    /\ c_todo' = c_todo \ {file}
    /\ UNCHANGED <<extracted_data, uploads, elsewhere, results, procvars, datavars, exportvars,
                   c_pc, c_listing, c_removed, last_writer, last_loop, keepvars, fvars>>

clear_data_return ==
    /\ c_pc = "remove"
    /\ c_todo = {}
    /\ c_pc' = "done"
    /\ UNCHANGED <<extracted_data, uploads, elsewhere, results, procvars, datavars, exportvars,
                   c_listing, c_todo, c_removed, c_failed, last_writer, last_loop, keepvars, fvars>>

(***************************************************************************)
(* The application serving interleaved requests: two Process requests, one *)
(* Data, one Export and one Clear request.                                 *)
(***************************************************************************)
\* the files the requests so far have named
Requested == Len(file_paths["p1"]) + Len(file_paths["p2"])

Init == InitWith(ConcUploads, ConcPaths \ ConcUploads, {None})

Next ==
    \/ \E p \in Procs :
          \/ \E body \in Bodies(ConcPaths, MaxConcFiles - Requested) :
                process_files_begin(p, body)
          \/ process_files_iter(p)
          \/ process_files_store(p)
          \/ process_files_stats(p)
    \/ get_data_read
    \/ get_data_count
    \/ export_excel_check
    \/ export_excel_write
    \/ clear_data_assign
    \/ clear_data_listdir
    \/ \E file \in ConcUploads : clear_data_remove(file)
    \/ \E file \in ConcUploads : clear_data_remove_error(file)
    \/ clear_data_return

Spec == Init /\ [][Next]_vars

(***************************************************************************)
(* Clear beside one Process request, the upload folder holding three files.*)
(***************************************************************************)
InitClear == InitWith(ClearUploads, {}, {None})

NextClear ==
    \/ \E body \in Bodies(ClearUploads, MaxConcFiles) : process_files_begin("p1", body)
    \/ process_files_iter("p1")
    \/ process_files_store("p1")
    \/ process_files_stats("p1")
    \/ clear_data_assign
    \/ clear_data_listdir
    \/ \E file \in ClearUploads : clear_data_remove(file)
    \/ \E file \in ClearUploads : clear_data_remove_error(file)
    \/ clear_data_return

SpecClear == InitClear /\ [][NextClear]_vars

(***************************************************************************)
(* One Process request on its own, over every kind of document.            *)
(***************************************************************************)
InitBatch == InitWith(DiskFiles, {}, {None})

NextBatch ==
    \/ \E body \in Bodies(Paths, MaxFiles) : process_files_begin("p1", body)
    \/ process_files_iter("p1")
    \/ process_files_store("p1")
    \/ process_files_stats("p1")

SpecBatch == InitBatch /\ [][NextBatch]_vars

(***************************************************************************)
(* keep.py: InvoiceExtractor.extract_invoice_data, .flatten_to_rows and    *)
(* .process_multiple_invoices, run from the command line on the files of   *)
(* the working directory (DiskFiles).                                      *)
(***************************************************************************)
keep_extract_invoice_data(image_path, disk) ==
    IF image_path \notin disk THEN None
    ELSE LET r == Service(image_path)
         IN  IF r.err THEN None
             ELSE IF ~r.decodable THEN None
             ELSE r.value

keep_flatten_row(invoice, item) ==
    [Invoice_Number   |-> get(invoice, "invoice_number", JStr("")),
     Waybill_Number   |-> get(invoice, "waybill_number", JStr("")),
     Customer_Name    |-> get(invoice, "customer_name", JStr("")),
     Order_Number     |-> get(invoice, "order_number", JStr("")),
     Invoice_Date     |-> get(invoice, "invoice_date", JStr("")),
     Line_No          |-> get(item, "line_no", JStr("")),
     Item_Code        |-> get(item, "item_code", JStr("")),
     Item_Description |-> get(item, "item_description", JStr("")),
     Quantity         |-> get(item, "quantity", JInt(0)),
     UOM              |-> get(item, "uom", JStr("")),
     Unit_Price       |-> get(item, "unit_price", JInt(0)),
     Total_Amount     |-> get(item, "total_amount", JInt(0)),
     Discount_Amount  |-> get(item, "discount_amount", JInt(0)),
     VAT              |-> get(item, "vat", JInt(0)),
     Amount_Incl_VAT  |-> get(item, "amount_incl_vat", JInt(0)),
     Batch_No         |-> get(item, "batch_no", JStr("")),
     Expiry_Date      |-> get(item, "expiry_date", JStr(""))]

RECURSIVE keep_flatten_loop(_, _, _, _)
keep_flatten_loop(invoice, items, i, rows) ==
    IF i > Len(items) THEN [raised |-> FALSE, rows |-> rows]
    ELSE IF items[i].t # "dict" THEN [raised |-> TRUE, rows |-> <<>>]
    ELSE keep_flatten_loop(invoice, items, i + 1,
                           Append(rows, keep_flatten_row(invoice, items[i].f)))

keep_flatten_to_rows(invoice_data) ==
    IF ~Truthy(invoice_data) THEN [raised |-> FALSE, rows |-> <<>>]
    ELSE IF invoice_data.t # "dict" THEN [raised |-> TRUE, rows |-> <<>>]
    ELSE LET line_items == get(invoice_data.f, "line_items", JList(<<>>))
         IN  IF ~Iterable(line_items) THEN [raised |-> TRUE, rows |-> <<>>]
             ELSE keep_flatten_loop(invoice_data.f, IterItems(line_items), 1, <<>>)

process_multiple_invoices_begin(image_paths) ==
    /\ k_pc = "idle"
    /\ k_paths' = image_paths
    /\ k_idx' = 1
    /\ k_all_rows' = <<>>
    /\ k_pc' = IF Len(image_paths) = 0 THEN "save" ELSE "loop"
    /\ UNCHANGED <<k_result, appvars, fvars>>

\* one pass of the loop body (lines 126-138): nothing catches an exception of
\* flatten_to_rows, which leaves the loop and the method
process_multiple_invoices_iter ==
    /\ k_pc = "loop"
    /\ LET image_path == k_paths[k_idx]
           invoice_data == keep_extract_invoice_data(image_path, DiskFiles)
           r == keep_flatten_to_rows(invoice_data)
       IN  IF Truthy(invoice_data) /\ r.raised
           THEN /\ k_pc' = "raised"
                /\ UNCHANGED <<k_idx, k_all_rows>>
           ELSE /\ k_all_rows' = IF Truthy(invoice_data)
                                 THEN k_all_rows \o r.rows ELSE k_all_rows
                /\ k_idx' = k_idx + 1
                /\ k_pc' = IF k_idx = Len(k_paths) THEN "save" ELSE "loop"
    /\ UNCHANGED <<k_paths, k_result, appvars, fvars>>

\* lines 141-177: the rows are saved and the frame returned, or None
process_multiple_invoices_save ==
    /\ k_pc = "save"
    /\ k_result' = IF Len(k_all_rows) > 0 THEN "df" ELSE "None"
    /\ k_pc' = "returned"
    /\ UNCHANGED <<k_paths, k_idx, k_all_rows, appvars, fvars>>

InitKeep == InitWith(DiskFiles, {}, {None})

NextKeep ==
    \/ \E image_paths \in SeqsUpTo(Paths, MaxFiles) :
          process_multiple_invoices_begin(image_paths)
    \/ process_multiple_invoices_iter
    \/ process_multiple_invoices_save

SpecKeep == InitKeep /\ [][NextKeep]_vars

(***************************************************************************)
(* The two flatten_to_rows on their own.                                   *)
(***************************************************************************)
InitFlatten == InitWith(DiskFiles, {}, FlattenInputs)

flatten_apply ==
    /\ f_pc = "call"
    /\ f_out' = flatten_to_rows(f_in)
    /\ f_keep_out' = keep_flatten_to_rows(f_in)
    /\ f_pc' = IF f_out'.raised THEN "raised" ELSE "returned"
    /\ UNCHANGED <<f_in, appvars, keepvars>>

SpecFlatten == InitFlatten /\ [][flatten_apply]_vars

(***************************************************************************)
(* Properties.                                                             *)
(***************************************************************************)
\* a record as the extraction prompt asks for it: an object whose
\* line_items, when present, is a list of objects
WellFormedRecord(v) ==
    /\ v.t = "dict"
    /\ LET li == get(v.f, "line_items", JList(<<>>))
       IN  /\ li.t = "list"
           /\ \A i \in 1..Len(li.items) : li.items[i].t = "dict"
LineItemCount(v) == Len(get(v.f, "line_items", JList(<<>>)).items)

\* the extractor's result for the i-th path of request p, run on its own
Extracted(p, i) == extract_invoice_data(file_paths[p][i], DiskFiles)
Succeeded(p) == {i \in 1..Len(file_paths[p]) : Extracted(p, i).t # "none"}
OnlyFailuresAndRecords(p) ==
    \A i \in Succeeded(p) : WellFormedRecord(Extracted(p, i))

RECURSIVE ItemsFrom(_, _)
ItemsFrom(p, i) ==
    IF i > Len(file_paths[p]) THEN 0
    ELSE (IF i \in Succeeded(p) THEN LineItemCount(Extracted(p, i)) ELSE 0)
         + ItemsFrom(p, i + 1)
RECURSIVE RowsFrom(_, _)
RowsFrom(p, i) ==
    IF i > Len(file_paths[p]) THEN <<>>
    ELSE (IF i \in Succeeded(p) THEN flatten_to_rows(Extracted(p, i)).rows ELSE <<>>)
         \o RowsFrom(p, i + 1)

Answered(p) == pc[p] = "done" /\ resp[p].status # "error400"

\* C1: a Process response counts in `processed` the files whose extraction
\* did not fail, `total_rows` is the number of their line items, and the rows
\* accumulated are their flattened rows in the order of the paths.
C1_BatchCountsSucceeded ==
    \A p \in Procs :
        (Answered(p) /\ resp[p].status = "success" /\ OnlyFailuresAndRecords(p))
        => /\ resp[p].processed = Cardinality(Succeeded(p))
           /\ resp[p].total_rows = ItemsFrom(p, 1)
           /\ all_rows[p] = RowsFrom(p, 1)

\* C2: no exception leaves the batch loop of process_multiple_invoices, and a
\* batch that has returned went through every path.
C2_BatchNeverAborts ==
    /\ k_pc # "raised"
    /\ k_pc = "returned" => k_idx = Len(k_paths) + 1

\* C3: a batch made only of failures and of records without line items (an
\* empty line_items list, no line_items key, no key at all) answers with
\* `processed` equal to the number of those records, and with no row.
ZeroItemRecord(v) == WellFormedRecord(v) /\ LineItemCount(v) = 0
C3_ZeroItemRecordsCounted ==
    \A p \in Procs :
        (Answered(p) /\ \A i \in Succeeded(p) : ZeroItemRecord(Extracted(p, i)))
        => /\ resp[p].status = "success"
           /\ resp[p].processed = Cardinality(Succeeded(p))
           /\ resp[p].total_rows = 0

\* C4: the dataset is empty or is the whole row list of one batch whose loop
\* has ended: never the rows of a batch still in its loop, never two batches'
\* rows merged.
LoopEnded(p) ==
    /\ pc[p] \in {"stats", "done"}
    /\ Len(file_paths[p]) > 0
    /\ idx[p] = Len(file_paths[p]) + 1
C4_DatasetWhole ==
    \/ extracted_data = <<>>
    \/ \E p \in Procs : LoopEnded(p) /\ extracted_data = all_rows[p]
C4_Witness ==
    /\ Len(extracted_data) > 0
    /\ e_pc = "write" /\ d_pc = "count" /\ c_pc = "remove"
    /\ \E q \in Procs :
          /\ pc[q] = "loop"
          /\ Len(all_rows[q]) > 0
          /\ all_rows[q] # extracted_data

\* C5 (as amended): once both Process requests have answered and no Clear has
\* emptied the dataset since, the dataset is the row list of the request whose
\* assignment to it ran last.
BothStored == \A p \in Procs : Answered(p)
C5_LastStoreWins ==
    (BothStored /\ last_writer \in Procs) => extracted_data = all_rows[last_writer]
\* C5 (as stated): ... the dataset is the row list of the request whose loop
\* ended last.
C5_LastLoopWins ==
    (BothStored /\ last_writer \in Procs) => extracted_data = all_rows[last_loop]
C5_Witness ==
    /\ BothStored
    /\ last_writer = "p1" /\ last_loop = "p2"
    /\ all_rows["p1"] # all_rows["p2"]
    /\ extracted_data = all_rows["p1"]

\* C6: every spreadsheet Export writes holds at least one row, and Export
\* answers with a file only when it wrote one.
C6_ExportNeverEmpty ==
    /\ \A i \in 1..Len(results) : Len(results[i]) > 0
    /\ e_resp = "file" => Len(results) > 0

\* C7: each flatten_to_rows (app.py's and keep.py's), given a record with N
\* line items, returns N rows, row i holding item i's fields and the record's
\* five header fields, a missing field replaced by Default(key); given a
\* falsy record (None, {}) it returns no row.
HeaderColumn ==
    [invoice_number |-> "Invoice_Number", waybill_number |-> "Waybill_Number",
     customer_name |-> "Customer_Name", order_number |-> "Order_Number",
     invoice_date |-> "Invoice_Date"]
ItemColumn ==
    [line_no |-> "Line_No", item_code |-> "Item_Code",
     item_description |-> "Item_Description", quantity |-> "Quantity",
     uom |-> "UOM", unit_price |-> "Unit_Price", total_amount |-> "Total_Amount",
     discount_amount |-> "Discount_Amount", vat |-> "VAT",
     amount_incl_vat |-> "Amount_Incl_VAT", batch_no |-> "Batch_No",
     expiry_date |-> "Expiry_Date"]
NumericKeys == {"line_no", "quantity", "unit_price", "total_amount",
                "discount_amount", "vat", "amount_incl_vat"}
\* the default by the field's declared type: zero for a number, else ''
TypeDefault(key) == IF key \in NumericKeys THEN JInt(0) ELSE JStr("")
\* the same, but '' for the line number
BlankLineNoDefault(key) == IF key = "line_no" THEN JStr("") ELSE TypeDefault(key)

FlattenMeets(out, Default(_)) ==
    f_pc # "call" =>
        /\ ~Truthy(f_in) => (~out.raised /\ out.rows = <<>>)
        /\ WellFormedRecord(f_in) =>
              LET items == get(f_in.f, "line_items", JList(<<>>)).items
                  rows == out.rows
              IN  /\ ~out.raised
                  /\ Len(rows) = Len(items)
                  /\ \A i \in 1..Len(items) :
                        /\ \A k \in ItemKeys :
                              rows[i][ItemColumn[k]] = get(items[i].f, k, Default(k))
                        /\ \A k \in HeaderKeys :
                              rows[i][HeaderColumn[k]] = get(f_in.f, k, JStr(""))

RECURSIVE QuantityFrom(_, _)
QuantityFrom(rows, i) ==
    IF i > Len(rows) THEN 0
    ELSE (IF rows[i].Quantity.t = "int" THEN rows[i].Quantity.n ELSE 0)
         + QuantityFrom(rows, i + 1)
C8_TotalQuantity ==
    \A p \in Procs :
        Answered(p) => /\ resp[p].status = "success"
                       /\ resp[p].total_quantity = QuantityFrom(all_rows[p], 1)

\* C9 (as amended): at the step in which Clear returns, the dataset is empty
\* unless a Process request assigned it after Clear emptied it; every file of
\* the folder was tried, and those whose removal did not fail are gone.
ClearReturns == c_pc = "remove" /\ c_pc' = "done"
ClearedFiles ==
    /\ c_removed' \cup c_failed' = c_listing'
    /\ c_removed' \cap uploads' = {}
C9_ClearReturnsUnlessStored ==
    [][ClearReturns => /\ (last_writer' = "clear" => extracted_data' = <<>>)
                       /\ ClearedFiles]_vars
\* C9 (as stated): at the step in which Clear returns, the dataset is empty;
\* every file of the folder was tried, and those removed are gone.
C9_ClearReturnsEmpty ==
    [][ClearReturns => (extracted_data' = <<>> /\ ClearedFiles)]_vars
C9_Witness ==
    /\ c_pc = "done"
    /\ c_failed # {} /\ c_removed # {}
    /\ extracted_data = <<>>
    /\ pc["p1"] = "done" /\ Len(all_rows["p1"]) > 0

\* C10: a Process request that answers with an error leaves the dataset as it
\* was before the request (empty, the request being the only one).
C10_ErrorLeavesDataset ==
    (pc["p1"] = "done" /\ resp["p1"].status # "success") => extracted_data = <<>>

=============================================================================
